---- MODULE Spec2Model ----
(***************************************************************************)
(* The editor bridge of crates/chat-cli/src/jsonrpc_server.rs: the         *)
(* connection slot WS_SENDER, the editor context CURRENT_EDITOR, the read  *)
(* and write pumps of handle_websocket, the dispatcher                     *)
(* handle_jsonrpc_request and the publishers send_to_ide / notify_ide.     *)
(***************************************************************************)
EXTENDS Integers, Sequences, FiniteSets, TLC

(***************************************************************************)
(* Bounds of the model.                                                    *)
(***************************************************************************)
\* connections accepted during a run, numbered in order of arrival
NumConns == 2
\* frames one connection's read pump takes during a run of the lifecycle
MaxConnFrames == 1
\* frames the read pump takes during a run of the other specifications
MaxFrames == 2
\* calls of notify_ide made by the CLI side during a run
MaxPublish == 2
\* calls of get_current_editor_state made by the CLI side during a run
MaxGets == 2
\* calls of is_vscode_integration_available the CLI side makes
MaxProbes == 2

Conns == 1..NumConns

(***************************************************************************)
(* Option<T>: None is the empty tuple, Some(x) the one-element tuple.      *)
(***************************************************************************)
None == <<>>
Some(x) == <<x>>
IsSome(o) == o # <<>>
Unwrap(o) == o[1]

(***************************************************************************)
(* serde_json::Value.  A number is kept as hi * 2^32 + lo with lo in the   *)
(* range of i32, so a 64-bit integer keeps its width while every number    *)
(* written here stays within 32 bits.  An object is a record over the keys *)
(* the dispatcher looks up; a key the document lacks holds JAbsent.        *)
(***************************************************************************)
MaxI32 == 2147483647
MinI32 == -MaxI32 - 1

JAbsent == [t |-> "absent"]
JNull == [t |-> "null"]
JStr(s) == [t |-> "str", s |-> s]
JNum(hi, lo) == [t |-> "num", hi |-> hi, lo |-> lo]
JFloat == [t |-> "float"]
JArr(a) == [t |-> "arr", a |-> a]
JObj(f) == [t |-> "obj", f |-> f]

\* Value::get(key): the member of an object, None for anything else
Get(v, k) ==
    IF v.t = "obj" /\ k \in DOMAIN v.f /\ v.f[k].t # "absent"
    THEN Some(v.f[k]) ELSE None

\* Option::and_then(|v| v.as_str())
AsStr(o) == IF IsSome(o) /\ Unwrap(o).t = "str" THEN Some(Unwrap(o).s) ELSE None

\* Option::and_then(|v| v.as_i64())
AsI64(o) ==
    IF IsSome(o) /\ Unwrap(o).t = "num"
    THEN Some([hi |-> Unwrap(o).hi, lo |-> Unwrap(o).lo]) ELSE None

\* Option::and_then(|v| v.as_array())
AsArray(o) == IF IsSome(o) /\ Unwrap(o).t = "arr" THEN Some(Unwrap(o).a) ELSE None

\* `n as i32` of an i64: the low 32 bits, read as a signed number
AsI32(n) == n.lo

\* folders.iter().filter_map(|v| v.as_str().map(|s| s.to_string())).collect()
RECURSIVE FilterMapStr(_)
FilterMapStr(a) ==
    IF a = <<>> THEN <<>>
    ELSE (IF Head(a).t = "str" THEN <<Head(a).s>> ELSE <<>>) \o FilterMapStr(Tail(a))

(***************************************************************************)
(* EditorInfo and the cursor state it carries.                             *)
(***************************************************************************)
Position(l, c) == [line |-> l, character |-> c]
CursorPosition(p) == [variant |-> "Position", position |-> p]
CursorRange(s, e) == [variant |-> "Range", start |-> s, end |-> e]

EditorInfo(path, lang, text, cursor, folders) ==
    [relative_file_path |-> path, language |-> lang, text |-> text,
     cursor_state |-> cursor, workspace_folders |-> folders]

\* EditorInfo::default()
EditorInfoDefault == EditorInfo(None, None, None, None, None)

\* a position arm that reads a missing or wrongly typed coordinate as 0
ParsePosition_lenient(position) ==
    LET line == AsI64(Get(position, "line"))
        character == AsI64(Get(position, "character"))
    IN Some(CursorPosition(Position(
           IF IsSome(line) THEN AsI32(Unwrap(line)) ELSE 0,
           IF IsSome(character) THEN AsI32(Unwrap(character)) ELSE 0)))

\* the position arm of the cursor_state block
ParsePosition(position) ==
    LET line == AsI64(Get(position, "line"))
        character == AsI64(Get(position, "character"))
    IN IF IsSome(line) /\ IsSome(character)
       THEN Some(CursorPosition(Position(AsI32(Unwrap(line)), AsI32(Unwrap(character)))))
       ELSE None

\* the range arm of the cursor_state block
ParseRange(range) ==
    LET start == Get(range, "start")
        end == Get(range, "end")
    IN IF IsSome(start) /\ IsSome(end)
       THEN LET start_line == AsI64(Get(Unwrap(start), "line"))
                start_char == AsI64(Get(Unwrap(start), "character"))
                end_line == AsI64(Get(Unwrap(end), "line"))
                end_char == AsI64(Get(Unwrap(end), "character"))
            IN IF IsSome(start_line) /\ IsSome(start_char)
                  /\ IsSome(end_line) /\ IsSome(end_char)
               THEN Some(CursorRange(
                        Position(AsI32(Unwrap(start_line)), AsI32(Unwrap(start_char))),
                        Position(AsI32(Unwrap(end_line)), AsI32(Unwrap(end_char)))))
               ELSE None
       ELSE None

\* a cursor_state block that reads both keys and keeps what both give
ParseCursorState_both(cursor_state) ==
    LET position == Get(cursor_state, "position")
        range == Get(cursor_state, "range")
        p == IF IsSome(position) THEN ParsePosition(Unwrap(position)) ELSE None
        r == IF IsSome(range) THEN ParseRange(Unwrap(range)) ELSE None
    IN IF IsSome(p) /\ IsSome(r)
       THEN Some([variant |-> "Position", position |-> Unwrap(p).position,
                  start |-> Unwrap(r).start, end |-> Unwrap(r).end])
       ELSE IF IsSome(position) THEN p ELSE r

\* if let Some(position) = .. { .. } else if let Some(range) = .. { .. }
ParseCursorState(cursor_state) ==
    LET position == Get(cursor_state, "position")
        range == Get(cursor_state, "range")
    IN IF IsSome(position) THEN ParsePosition(Unwrap(position))
       ELSE IF IsSome(range) THEN ParseRange(Unwrap(range))
       ELSE None

\* the EditorInfo handle_jsonrpc_request builds from a params value
BuildEditorInfo(params) ==
    LET cursor_state == Get(params, "cursor_state")
        folders == AsArray(Get(params, "workspace_folders"))
    IN EditorInfo(
        AsStr(Get(params, "relative_file_path")),
        AsStr(Get(params, "language")),
        AsStr(Get(params, "text")),
        IF IsSome(cursor_state) THEN ParseCursorState(Unwrap(cursor_state)) ELSE None,
        IF IsSome(folders) THEN Some(FilterMapStr(Unwrap(folders))) ELSE None)

(***************************************************************************)
(* JSON-RPC messages.  req.id is an Option<Value>; json!({"id": req.id})   *)
(* writes None as null.                                                    *)
(***************************************************************************)
JsonRpcRequest(method, params, id) == [method |-> method, params |-> params, id |-> id]

IdJson(id) == IF IsSome(id) THEN Unwrap(id) ELSE JNull

\* an error response with the code of "Invalid Request"
ErrorResponse_invalid_request(id) ==
    [kind |-> "error", code |-> -32600, message |-> "Invalid Request", id |-> IdJson(id)]

OkResponse(id) == [kind |-> "result", status |-> "ok", id |-> IdJson(id)]
ErrorResponse(id) ==
    [kind |-> "error", code |-> -32601, message |-> "Method not found", id |-> IdJson(id)]

\* json!({"jsonrpc": "2.0", "method": method, "params": params})
Notification(method, status) == [kind |-> "notification", method |-> method, status |-> status]

IsUpdate(req) == req.method = "update_editor_state"

\* handle_jsonrpc_request: the EditorInfo handed to set_current_editor (None
\* when it is not called) and the response returned
handle_jsonrpc_request(req) ==
    IF IsUpdate(req)
    THEN [info |-> IF IsSome(req.params)
                   THEN Some(BuildEditorInfo(Unwrap(req.params))) ELSE None,
          response |-> OkResponse(req.id)]
    ELSE [info |-> None, response |-> ErrorResponse(req.id)]

\* a decoder that takes any JSON object for a request, reading a missing or
\* wrongly typed method as the empty string
Decode_lenient(frame) ==
    IF frame.t = "text" /\ frame.doc.t = "obj"
    THEN LET method == AsStr(Get(frame.doc, "method"))
         IN Some(JsonRpcRequest(IF IsSome(method) THEN Unwrap(method) ELSE "",
                                Get(frame.doc, "params"), Get(frame.doc, "id")))
    ELSE None

\* serde_json::from_str::<JsonRpcRequest>(text) on the document of a text frame:
\* method must be a string; params and id are optional and null reads as None
Decode(frame) ==
    IF frame.t = "text" /\ frame.doc.t = "obj" /\ IsSome(AsStr(Get(frame.doc, "method")))
    THEN LET params == Get(frame.doc, "params")
             id == Get(frame.doc, "id")
         IN Some(JsonRpcRequest(
                Unwrap(AsStr(Get(frame.doc, "method"))),
                IF IsSome(params) /\ Unwrap(params).t # "null" THEN params ELSE None,
                IF IsSome(id) /\ Unwrap(id).t # "null" THEN id ELSE None))
    ELSE None

(***************************************************************************)
(* set_current_editor computes the selection size in i32 before it takes   *)
(* the lock: (range.end.line - range.start.line + 1).max(1).  The          *)
(* subtraction or the addition can leave i32; a build with overflow checks *)
(* panics there, a build without them wraps and goes on.                   *)
(***************************************************************************)
SubOverflows(a, b) == (b < 0 /\ a > MaxI32 + b) \/ (b > 0 /\ a < MinI32 + b)

SelectionOverflows(info) ==
    /\ IsSome(info.cursor_state)
    /\ Unwrap(info.cursor_state).variant = "Range"
    /\ LET r == Unwrap(info.cursor_state)
       IN \/ SubOverflows(r.end.line, r.start.line)
          \/ r.end.line - r.start.line = MaxI32

(***************************************************************************)
(* Frames the peer sends.                                                  *)
(***************************************************************************)
TextFrame(doc) == [t |-> "text", doc |-> doc]
BinaryFrame == [t |-> "binary", doc |-> JNull]
NotJson == [t |-> "invalid"]

RequestDoc(method, params, id) == JObj([method |-> method, params |-> params, id |-> id])
ParamsObj(path, lang, text, cursor, folders) ==
    JObj([relative_file_path |-> path, language |-> lang, text |-> text,
          cursor_state |-> cursor, workspace_folders |-> folders])
CursorObj(position, range) == JObj([position |-> position, range |-> range])
PositionObj(line, character) == JObj([line |-> line, character |-> character])
RangeObj(start, end) == JObj([start |-> start, end |-> end])

\* the frames of the connection-lifecycle specification
LifecycleFrames ==
    { TextFrame(RequestDoc(JStr("frobnicate"), JAbsent, JNum(0, 7))),
      TextFrame(RequestDoc(JStr("update_editor_state"),
                           ParamsObj(JStr("a.rs"), JStr("rust"), JAbsent, JAbsent, JAbsent),
                           JNum(0, 1))),
      BinaryFrame }

(***************************************************************************)
(* The frames of the dispatcher specification: update_editor_state         *)
(* requests over every combination of the plain fields, over complete,     *)
(* incomplete and wrongly typed cursor states, and the other requests and  *)
(* frames the read pump can meet.                                          *)
(***************************************************************************)
N(x) == JNum(0, x)

PosValid == PositionObj(N(3), N(4))
PosNoCharacter == PositionObj(N(3), JAbsent)
PosNoLine == PositionObj(JAbsent, N(4))
PosStringLine == PositionObj(JStr("3"), N(4))
PosFloatCharacter == PositionObj(N(3), JFloat)
PosNegative == PositionObj(N(-1), N(0))
PosWide == PositionObj(JNum(1, 5), N(0))
PosNotObject == JStr("3:4")

RangeValid == RangeObj(PositionObj(N(3), N(0)), PositionObj(N(5), N(2)))
RangeNoEnd == RangeObj(PositionObj(N(3), N(0)), JAbsent)
RangeNoStart == RangeObj(JAbsent, PositionObj(N(5), N(2)))
RangeStartNoCharacter == RangeObj(PositionObj(N(3), JAbsent), PositionObj(N(5), N(2)))
RangeEndNoLine == RangeObj(PositionObj(N(3), N(0)), PositionObj(JAbsent, N(2)))
RangeHuge == RangeObj(PositionObj(N(0), N(0)), PositionObj(N(MaxI32), N(0)))
RangeNotObject == JStr("3-5")

CursorSamples ==
    { JStr("caret"), CursorObj(JAbsent, JAbsent) }
    \cup { CursorObj(p, JAbsent) :
             p \in { PosValid, PosNoCharacter, PosNoLine, PosStringLine,
                     PosFloatCharacter, PosNegative, PosWide, PosNotObject } }
    \cup { CursorObj(JAbsent, r) :
             r \in { RangeValid, RangeNoEnd, RangeNoStart, RangeStartNoCharacter,
                     RangeEndNoLine, RangeHuge, RangeNotObject } }
    \cup { CursorObj(PosValid, RangeValid), CursorObj(PosNoCharacter, RangeValid),
           CursorObj(PosValid, RangeNoEnd) }

FoldersMixed == JArr(<<JStr("/w"), N(3), JStr("/v")>>)

ParamsSamples ==
    { ParamsObj(path, lang, text, JAbsent, folders) :
        path \in {JAbsent, JStr("a.rs")}, lang \in {JAbsent, JStr("rust")},
        text \in {JAbsent, JStr("fn main")}, folders \in {JAbsent, FoldersMixed} }
    \cup { ParamsObj(JStr("b.rs"), JStr("toml"), JAbsent, cursor, FoldersMixed) :
             cursor \in CursorSamples }
    \cup { ParamsObj(N(1), N(2), JNull, JAbsent, JStr("/w")), JStr("params") }

DispatchFrames ==
    { TextFrame(RequestDoc(JStr("update_editor_state"), params, N(7))) :
        params \in ParamsSamples }
    \cup { TextFrame(RequestDoc(JStr("update_editor_state"), JAbsent, id)) :
             id \in {JAbsent, N(7)} }
    \cup { TextFrame(RequestDoc(JStr(method), params, id)) :
             method \in {"frobnicate", "updateEditorState"},
             params \in {JAbsent, ParamsObj(JStr("a.rs"), JAbsent, JAbsent, JAbsent, JAbsent)},
             id \in {JAbsent, JNull, N(7), JStr("r1")} }
    \cup { TextFrame(RequestDoc(JAbsent, JAbsent, N(7))), TextFrame(NotJson),
           BinaryFrame, [t |-> "error", doc |-> JNull] }

\* the frames of the store specification: updates that differ in every field
\* get_current_editor_state copies, and one without a path
StoreFrames ==
    { TextFrame(RequestDoc(JStr("update_editor_state"), params, N(7))) :
        params \in { ParamsObj(JStr("a.rs"), JStr("rust"), JStr("fn main"),
                               CursorObj(PosValid, JAbsent), FoldersMixed),
                     ParamsObj(JStr("b.rs"), JStr("toml"), JStr("[package]"),
                               CursorObj(JAbsent, RangeValid), JArr(<<JStr("/u")>>)),
                     ParamsObj(JAbsent, JAbsent, JStr("scratch"), JAbsent, JAbsent) } }

(***************************************************************************)
(* is_vscode_integration_available: the environment it reads and the       *)
(* health check it awaits.                                                 *)
(***************************************************************************)
\* std::env::var(..) is Err for a variable that is not set (None here);
\* VSCODE_EXTENSIONS is read as the list of the extension ids it names
TermPrograms == {None, Some("vscode"), Some("xterm")}
ExtensionLists ==
    {None, Some(<<"rust-lang.rust-analyzer">>),
     Some(<<"rust-lang.rust-analyzer", "amazonwebservices.amazon-q-developer">>)}

\* extensions.contains("amazonwebservices.amazon-q-developer")
Contains(extensions, id) == \E i \in 1..Len(extensions) : extensions[i] = id

\* what the two reads of the environment leave behind: the values and the two
\* detections that are logged
Env(term_program, extensions) ==
    [TERM_PROGRAM |-> term_program,
     VSCODE_EXTENSIONS |-> extensions,
     vscode_detected |-> term_program = Some("vscode"),
     extension_detected |->
         IsSome(extensions)
         /\ Contains(Unwrap(extensions), "amazonwebservices.amazon-q-developer")]
NoEnv == Env(None, None)

\* what tokio::time::timeout(300 ms, client.get(..).send()).await yields:
\* Err(Elapsed), Ok(Ok(response)) with a status, or Ok(Err(e))
Elapsed == [k |-> "elapsed", status |-> 0, e |-> "none"]
Responded(status) == [k |-> "response", status |-> status, e |-> "none"]
Failed(e) == [k |-> "error", status |-> 0, e |-> e]
NoOutcome == [k |-> "none", status |-> 0, e |-> "none"]

HealthOutcomes ==
    {Elapsed}
    \cup {Responded(status) : status \in {200, 204, 404, 503}}
    \cup {Failed(e) : e \in {"connection refused", "io"}}

\* resp.status().is_success(): a status from 200 to 299
is_success(status) == status >= 200 /\ status <= 299

\* a probe that takes everything but a failed request for an available server
is_available_unless_error(outcome) == outcome.k # "error"

\* the boolean is_vscode_integration_available returns for an outcome of the
\* awaited health check
is_available(outcome) ==
    CASE outcome.k = "elapsed" -> FALSE
      [] outcome.k = "response" -> is_success(outcome.status)
      [] outcome.k = "error" -> FALSE

(***************************************************************************)
(* State.                                                                  *)
(***************************************************************************)
VARIABLES
    WS_SENDER,       \* Option: the connection whose tx the slot holds
    CURRENT_EDITOR,  \* the EditorInfo behind the mutex
    editor_mutex,    \* the task holding CURRENT_EDITOR's mutex
    pc,              \* [Conns -> position of the connection's handle_websocket task]
    ws_open,         \* [Conns -> the peer has not closed the socket]
    frames,          \* [Conns -> number of frames the read pump has taken]
    req,             \* [Conns -> Option: the request being handled]
    info,            \* [Conns -> Option: the EditorInfo being stored]
    response,        \* [Conns -> Option: the response not yet sent]
    rx,              \* [Conns -> the messages queued in the connection's channel]
    accepted,        \* [Conns -> number of messages the channel has accepted]
    first,           \* [Conns -> Option: the first message the channel accepted]
    write_pump,      \* [Conns -> "unspawned", "running", "done"]
    wire,            \* [Conns -> the messages the write pump sent on the socket]
    latest,          \* the connection installed last, 0 before the first
    replaced,        \* [Conns -> the connection whose sender its install dropped, or 0]
    published,       \* the last send_to_ide call of the CLI side and its outcome
    get_pc,          \* position of the CLI side's get_current_editor_state call
    get_document,    \* the document fields that call has copied
    get_result,      \* Option<EditorState> the last call returned
    gets,            \* number of get_current_editor_state calls made
    prev_editor,     \* the EditorInfo the last store replaced
    stored,          \* every EditorInfo CURRENT_EDITOR has held
    probe_pc,        \* position of the CLI side's is_vscode_integration_available call
    probe_env,       \* what that call read from TERM_PROGRAM and VSCODE_EXTENSIONS
    probe_outcome,   \* what the awaited health check of that call yielded
    probe_result,    \* Option<bool>: what the last finished call returned
    probe_slot,      \* the slot at the moment that call returned
    probes           \* number of is_vscode_integration_available calls made

vars == <<WS_SENDER, CURRENT_EDITOR, editor_mutex, pc, ws_open, frames, req, info,
          response, rx, accepted, first, write_pump, wire, latest, replaced, published,
          get_pc, get_document, get_result, gets, prev_editor, stored,
          probe_pc, probe_env, probe_outcome, probe_result, probe_slot, probes>>

conn_vars == <<pc, ws_open, frames, req, info, response, write_pump, wire>>
chan_vars == <<rx, accepted, first>>
get_vars == <<get_pc, get_document, get_result, gets>>
editor_vars == <<CURRENT_EDITOR, editor_mutex, prev_editor, stored>>
probe_vars == <<probe_pc, probe_env, probe_outcome, probe_result, probe_slot, probes>>

NoTask == [k |-> "none", id |-> 0]
ConnTask(c) == [k |-> "conn", id |-> c]
ReaderTask == [k |-> "reader", id |-> 0]

NoPublish == [n |-> 0, to |-> None, result |-> "none", latest |-> 0, latest_reading |-> FALSE]

Init ==
    /\ WS_SENDER = None
    /\ CURRENT_EDITOR = EditorInfoDefault
    /\ editor_mutex = NoTask
    /\ pc = [c \in Conns |-> "idle"]
    /\ ws_open = [c \in Conns |-> TRUE]
    /\ frames = [c \in Conns |-> 0]
    /\ req = [c \in Conns |-> None]
    /\ info = [c \in Conns |-> None]
    /\ response = [c \in Conns |-> None]
    /\ rx = [c \in Conns |-> <<>>]
    /\ accepted = [c \in Conns |-> 0]
    /\ first = [c \in Conns |-> None]
    /\ write_pump = [c \in Conns |-> "unspawned"]
    /\ wire = [c \in Conns |-> <<>>]
    /\ latest = 0
    /\ replaced = [c \in Conns |-> 0]
    /\ published = NoPublish
    /\ get_pc = "idle"
    /\ get_document = None
    /\ get_result = None
    /\ gets = 0
    /\ prev_editor = EditorInfoDefault
    /\ stored = {EditorInfoDefault}
    /\ probe_pc = "idle"
    /\ probe_env = NoEnv
    /\ probe_outcome = NoOutcome
    /\ probe_result = None
    /\ probe_slot = None
    /\ probes = 0

(***************************************************************************)
(* The channel behind WS_SENDER.                                           *)
(***************************************************************************)
\* what a queued message carries: the JSON text, its place in the order of
\* acceptance, and who sent it (src: "publish" for the CLI side, else the
\* connection whose task sent it, by)
Entry(msg, seq, src, by) == [msg |-> msg, seq |-> seq, src |-> src, by |-> by]

\* tx.unbounded_send(Message::text(..)) on the sender of connection c
UnboundedSend(c, msg, src, by) ==
    /\ rx' = [rx EXCEPT ![c] = Append(@, Entry(msg, accepted[c] + 1, src, by))]
    /\ accepted' = [accepted EXCEPT ![c] = @ + 1]
    /\ first' = [first EXCEPT ![c] = IF accepted[c] = 0 THEN Some(msg) ELSE @]

\* the body of send_to_ide, and of the response block of handle_websocket:
\* lock WS_SENDER, send if a sender is installed, unlock
SendViaSlot(msg, src, by) ==
    IF IsSome(WS_SENDER)
    THEN UnboundedSend(Unwrap(WS_SENDER), msg, src, by)
    ELSE UNCHANGED chan_vars

\* the connection's read pump has not returned: the connection has not
\* disconnected
Reading(c) == pc[c] \in {"established", "reading", "store", "render", "rendering", "respond"}

(***************************************************************************)
(* send_to_ide / notify_ide called by the CLI side.                        *)
(***************************************************************************)
\* what send_to_ide returns: Ok(()) with a sender installed and without one
send_to_ide_result(sender) == "Ok"

notify_ide ==
    /\ SendViaSlot(Notification("file_modification", published.n + 1), "publish", 0)
    /\ published' = [n |-> published.n + 1, to |-> WS_SENDER,
                     result |-> send_to_ide_result(WS_SENDER),
                     latest |-> latest,
                     latest_reading |-> latest # 0 /\ Reading(latest)]
    /\ UNCHANGED <<WS_SENDER, latest, replaced, conn_vars, get_vars, probe_vars, editor_vars>>

(***************************************************************************)
(* handle_websocket, one task per connection.                              *)
(***************************************************************************)
\* *WS_SENDER.lock().unwrap() = Some(tx): the sender the slot held is dropped
handle_websocket_install(c) ==
    /\ pc[c] = "idle"
    /\ \A d \in Conns : d < c => pc[d] # "idle"
    /\ WS_SENDER' = Some(c)
    /\ latest' = c
    /\ replaced' = [replaced EXCEPT ![c] = IF IsSome(WS_SENDER) THEN Unwrap(WS_SENDER) ELSE 0]
    /\ pc' = [pc EXCEPT ![c] = "established"]
    /\ UNCHANGED <<ws_open, frames, req, info, response, write_pump, wire,
                   chan_vars, published, get_vars, probe_vars, editor_vars>>

\* notify_ide("connection_established", ..), then the write pump is spawned
handle_websocket_established(c) ==
    /\ pc[c] = "established"
    /\ SendViaSlot(Notification("connection_established", "connected"), "lifecycle", c)
    /\ write_pump' = [write_pump EXCEPT ![c] = "running"]
    /\ pc' = [pc EXCEPT ![c] = "reading"]
    /\ UNCHANGED <<WS_SENDER, latest, replaced, ws_open, frames, req, info, response, wire,
                   published, get_vars, probe_vars, editor_vars>>

\* ws_receiver.next() yields a frame: an error result, a frame that is not
\* text and a text that does not decode are skipped; a request is dispatched.
\* handle_jsonrpc_request runs up to the first lock of set_current_editor.
handle_websocket_frame(c, frame) ==
    /\ pc[c] = "reading"
    /\ ws_open[c]
    /\ frames' = [frames EXCEPT ![c] = @ + 1]
    /\ LET decoded == Decode(frame)
       IN IF ~IsSome(decoded)
          THEN UNCHANGED <<pc, req, info, response>>
          ELSE LET handled == handle_jsonrpc_request(Unwrap(decoded))
               IN /\ req' = [req EXCEPT ![c] = decoded]
                  /\ IF ~IsSome(handled.info)
                     THEN /\ response' = [response EXCEPT ![c] = Some(handled.response)]
                          /\ info' = info
                          /\ pc' = [pc EXCEPT ![c] = "respond"]
                     ELSE \E panics \in IF SelectionOverflows(Unwrap(handled.info))
                                        THEN BOOLEAN ELSE {FALSE} :
                            IF panics
                            THEN /\ pc' = [pc EXCEPT ![c] = "panicked"]
                                 /\ UNCHANGED <<info, response>>
                            ELSE /\ info' = [info EXCEPT ![c] = handled.info]
                                 /\ response' = [response EXCEPT ![c] = Some(handled.response)]
                                 /\ pc' = [pc EXCEPT ![c] = "store"]
    /\ UNCHANGED <<WS_SENDER, latest, replaced, ws_open, write_pump, wire, chan_vars,
                   published, get_vars, probe_vars, editor_vars>>

\* a mutex that never makes a task wait
CanLock_always == TRUE

\* the mutex of CURRENT_EDITOR can be taken
CanLock == editor_mutex = NoTask

\* a store that keeps the old value of every field the new context leaves unset
Assigned_merge(old, new) ==
    [f \in DOMAIN new |-> IF new[f] = None THEN old[f] ELSE new[f]]

\* the value the assignment leaves in CURRENT_EDITOR: the new context, whole
Assigned(old, new) == new

\* *CURRENT_EDITOR.lock().unwrap() = info
set_current_editor_store(c) ==
    /\ pc[c] = "store"
    /\ CanLock
    /\ CURRENT_EDITOR' = Assigned(CURRENT_EDITOR, Unwrap(info[c]))
    /\ prev_editor' = CURRENT_EDITOR
    /\ stored' = stored \cup {Assigned(CURRENT_EDITOR, Unwrap(info[c]))}
    /\ info' = [info EXCEPT ![c] = None]
    /\ pc' = [pc EXCEPT ![c] = "render"]
    /\ UNCHANGED <<WS_SENDER, latest, replaced, editor_mutex, ws_open, frames, req, response,
                   write_pump, wire, chan_vars, published, get_vars, probe_vars>>

\* if let Some(ref path) = CURRENT_EDITOR.lock().unwrap().relative_file_path:
\* the guard lives to the end of the if let, so with a path the status line is
\* written with the mutex held
set_current_editor_lock(c) ==
    /\ pc[c] = "render"
    /\ CanLock
    /\ IF IsSome(CURRENT_EDITOR.relative_file_path)
       THEN /\ editor_mutex' = ConnTask(c)
            /\ pc' = [pc EXCEPT ![c] = "rendering"]
       ELSE /\ editor_mutex' = editor_mutex
            /\ pc' = [pc EXCEPT ![c] = "respond"]
    /\ UNCHANGED <<WS_SENDER, latest, replaced, CURRENT_EDITOR, prev_editor, stored, ws_open,
                   frames, req, info, response, write_pump, wire, chan_vars,
                   published, get_vars, probe_vars>>

\* execute!(stdout, ..) has returned (its error is dropped); the guard is released
set_current_editor_render(c) ==
    /\ pc[c] = "rendering"
    /\ editor_mutex' = NoTask
    /\ pc' = [pc EXCEPT ![c] = "respond"]
    /\ UNCHANGED <<WS_SENDER, latest, replaced, CURRENT_EDITOR, prev_editor, stored, ws_open,
                   frames, req, info, response, write_pump, wire, chan_vars,
                   published, get_vars, probe_vars>>

\* the sender the read pump of connection c answers through
ResponseSender(c) == WS_SENDER

\* let sender = WS_SENDER.lock().unwrap(); if let Some(ref tx) = *sender { send }
handle_websocket_respond(c) ==
    /\ pc[c] = "respond"
    /\ LET sender == ResponseSender(c)
       IN IF IsSome(sender)
          THEN UnboundedSend(Unwrap(sender), Unwrap(response[c]), "response", c)
          ELSE UNCHANGED chan_vars
    /\ response' = [response EXCEPT ![c] = None]
    /\ req' = [req EXCEPT ![c] = None]
    /\ pc' = [pc EXCEPT ![c] = "reading"]
    /\ UNCHANGED <<WS_SENDER, latest, replaced, ws_open, frames, info, write_pump, wire,
                   published, get_vars, probe_vars, editor_vars>>

\* the peer closes the socket (or drops)
peer_close(c) ==
    /\ pc[c] \notin {"idle", "done"}
    /\ ws_open[c]
    /\ ws_open' = [ws_open EXCEPT ![c] = FALSE]
    /\ UNCHANGED <<WS_SENDER, latest, replaced, pc, frames, req, info, response, write_pump,
                   wire, chan_vars, published, get_vars, probe_vars, editor_vars>>

\* a teardown that leaves the slot as it finds it
ClearedSlot_keep(c) == WS_SENDER

\* what the teardown of connection c leaves in the slot
ClearedSlot(c) == None

\* ws_receiver.next() yields None; *WS_SENDER.lock().unwrap() = None
handle_websocket_clear(c) ==
    /\ pc[c] = "reading"
    /\ ~ws_open[c]
    /\ WS_SENDER' = ClearedSlot(c)
    /\ pc' = [pc EXCEPT ![c] = "closed"]
    /\ UNCHANGED <<latest, replaced, ws_open, frames, req, info, response, write_pump, wire,
                   chan_vars, published, get_vars, probe_vars, editor_vars>>

\* notify_ide("connection_closed", ..)
handle_websocket_closed(c) ==
    /\ pc[c] = "closed"
    /\ SendViaSlot(Notification("connection_closed", "disconnected"), "lifecycle", c)
    /\ pc' = [pc EXCEPT ![c] = "done"]
    /\ UNCHANGED <<WS_SENDER, latest, replaced, ws_open, frames, req, info, response,
                   write_pump, wire, published, get_vars, probe_vars, editor_vars>>

(***************************************************************************)
(* The write pump: while let Some(msg) = rx.next().await { send }          *)
(***************************************************************************)
\* a pump that takes the newest message instead of the oldest
NextMessage_newest(q) == q[Len(q)]

\* the message rx.next() yields
NextMessage(q) == Head(q)
\* the queue after rx.next() has yielded
AfterNext(q) == Tail(q)

\* ws_sender.send(msg): on a closed socket the error is dropped with the message
write_pump_forward(c) ==
    /\ write_pump[c] = "running"
    /\ rx[c] # <<>>
    /\ wire' = [wire EXCEPT ![c] = IF ws_open[c] THEN Append(@, NextMessage(rx[c])) ELSE @]
    /\ rx' = [rx EXCEPT ![c] = AfterNext(@)]
    /\ UNCHANGED <<WS_SENDER, latest, replaced, pc, ws_open, frames, req, info, response,
                   write_pump, accepted, first, published, get_vars, probe_vars, editor_vars>>

\* rx.next() yields None: the queue is empty and every sender is dropped (the
\* only sender is the one moved into the slot)
write_pump_exit(c) ==
    /\ write_pump[c] = "running"
    /\ rx[c] = <<>>
    /\ WS_SENDER # Some(c)
    /\ write_pump' = [write_pump EXCEPT ![c] = "done"]
    /\ UNCHANGED <<WS_SENDER, latest, replaced, pc, ws_open, frames, req, info, response,
                   wire, chan_vars, published, get_vars, probe_vars, editor_vars>>

(***************************************************************************)
(* get_current_editor_state called by the CLI side.                        *)
(***************************************************************************)
EditorState(document, cursor, folders) ==
    [document |-> document, cursor_state |-> cursor, workspace_folders |-> folders]
TextDocument(path, text) ==
    [relative_file_path |-> path, programming_language |-> None, text |-> text]

\* CURRENT_EDITOR.lock().unwrap()
get_current_editor_state_lock ==
    /\ get_pc = "idle"
    /\ CanLock
    /\ editor_mutex' = ReaderTask
    /\ gets' = gets + 1
    /\ get_pc' = "locked"
    /\ UNCHANGED <<WS_SENDER, latest, replaced, CURRENT_EDITOR, prev_editor, stored, conn_vars,
                   chan_vars, published, get_document, get_result, probe_vars>>

\* relative_file_path.as_ref().map(..): without a path the call returns None;
\* with one the closure copies the path and the text
get_current_editor_state_document ==
    /\ get_pc = "locked"
    /\ IF IsSome(CURRENT_EDITOR.relative_file_path)
       THEN /\ get_document' = Some(TextDocument(Unwrap(CURRENT_EDITOR.relative_file_path),
                                                 CURRENT_EDITOR.text))
            /\ get_pc' = "document"
            /\ UNCHANGED <<editor_mutex, get_result>>
       ELSE /\ get_result' = None
            /\ get_pc' = "idle"
            /\ editor_mutex' = NoTask
            /\ get_document' = None
    /\ UNCHANGED <<WS_SENDER, latest, replaced, CURRENT_EDITOR, prev_editor, stored, conn_vars,
                   chan_vars, published, gets, probe_vars>>

\* the closure copies cursor_state and workspace_folders; the guard is released
get_current_editor_state_return ==
    /\ get_pc = "document"
    /\ get_result' = Some(EditorState(Unwrap(get_document), CURRENT_EDITOR.cursor_state,
                                      CURRENT_EDITOR.workspace_folders))
    /\ get_document' = None
    /\ get_pc' = "idle"
    /\ editor_mutex' = NoTask
    /\ UNCHANGED <<WS_SENDER, latest, replaced, CURRENT_EDITOR, prev_editor, stored, conn_vars,
                   chan_vars, published, gets, probe_vars>>

(***************************************************************************)
(* is_vscode_integration_available called by the CLI side.                 *)
(***************************************************************************)
\* the call reads TERM_PROGRAM and VSCODE_EXTENSIONS, logs what it detects and
\* starts the health check under its timeout
is_vscode_integration_available_call(term_program, extensions) ==
    /\ probe_pc = "idle"
    /\ probe_env' = Env(term_program, extensions)
    /\ probe_outcome' = NoOutcome
    /\ probe_result' = None
    /\ probe_slot' = None
    /\ probes' = probes + 1
    /\ probe_pc' = "awaiting"
    /\ UNCHANGED <<WS_SENDER, latest, replaced, conn_vars, chan_vars, published, get_vars,
                   editor_vars>>

\* the await completes, with the health check's result or with the timeout's
\* Elapsed, and the call returns
is_vscode_integration_available_return(outcome) ==
    /\ probe_pc = "awaiting"
    /\ probe_outcome' = outcome
    /\ probe_result' = Some(is_available(outcome))
    /\ probe_slot' = WS_SENDER
    /\ probe_pc' = "idle"
    /\ UNCHANGED <<WS_SENDER, latest, replaced, conn_vars, chan_vars, published, get_vars,
                   editor_vars, probe_env, probes>>

(***************************************************************************)
(* The connection lifecycle: connections in order of arrival, their read   *)
(* pumps and the publishers of the CLI side.                               *)
(***************************************************************************)
Next ==
    \/ \E c \in Conns : handle_websocket_install(c)
    \/ \E c \in Conns : handle_websocket_established(c)
    \/ \E c \in Conns : \E frame \in LifecycleFrames :
          frames[c] < MaxConnFrames /\ handle_websocket_frame(c, frame)
    \/ \E c \in Conns : set_current_editor_store(c)
    \/ \E c \in Conns : set_current_editor_lock(c)
    \/ \E c \in Conns : set_current_editor_render(c)
    \/ \E c \in Conns : handle_websocket_respond(c)
    \/ \E c \in Conns : peer_close(c)
    \/ \E c \in Conns : handle_websocket_clear(c)
    \/ \E c \in Conns : handle_websocket_closed(c)
    \/ published.n < MaxPublish /\ notify_ide

Spec == Init /\ [][Next]_vars

(***************************************************************************)
(* One connection with its write pump, and the publishers.                 *)
(***************************************************************************)
NextPump ==
    \/ handle_websocket_install(1)
    \/ handle_websocket_established(1)
    \/ \E frame \in LifecycleFrames :
          frames[1] < MaxFrames /\ handle_websocket_frame(1, frame)
    \/ set_current_editor_store(1)
    \/ set_current_editor_lock(1)
    \/ set_current_editor_render(1)
    \/ handle_websocket_respond(1)
    \/ peer_close(1)
    \/ handle_websocket_clear(1)
    \/ handle_websocket_closed(1)
    \/ write_pump_forward(1)
    \/ write_pump_exit(1)
    \/ published.n < MaxPublish /\ notify_ide

SpecPump == Init /\ [][NextPump]_vars

(***************************************************************************)
(* One connection whose peer sends the frames of the dispatcher.           *)
(***************************************************************************)
NextDispatch ==
    \/ handle_websocket_install(1)
    \/ handle_websocket_established(1)
    \/ \E frame \in DispatchFrames :
          frames[1] < MaxFrames /\ handle_websocket_frame(1, frame)
    \/ set_current_editor_store(1)
    \/ set_current_editor_lock(1)
    \/ set_current_editor_render(1)
    \/ handle_websocket_respond(1)

SpecDispatch == Init /\ [][NextDispatch]_vars

(***************************************************************************)
(* The editor context under a writer (the read pump of a connection, which *)
(* stores one context after another) and a concurrent reader               *)
(* (get_current_editor_state on the CLI side).                             *)
(***************************************************************************)
NextStore ==
    \/ handle_websocket_install(1)
    \/ handle_websocket_established(1)
    \/ \E frame \in StoreFrames :
          frames[1] < MaxFrames /\ handle_websocket_frame(1, frame)
    \/ set_current_editor_store(1)
    \/ set_current_editor_lock(1)
    \/ set_current_editor_render(1)
    \/ handle_websocket_respond(1)
    \/ gets < MaxGets /\ get_current_editor_state_lock
    \/ get_current_editor_state_document
    \/ get_current_editor_state_return

SpecStore == Init /\ [][NextStore]_vars

(***************************************************************************)
(* The availability probe of the CLI side beside a connection that comes   *)
(* and goes.  The awaited health check is bounded by the timeout, so an     *)
(* await that has started completes.                                       *)
(***************************************************************************)
NextProbe ==
    \/ handle_websocket_install(1)
    \/ handle_websocket_established(1)
    \/ peer_close(1)
    \/ handle_websocket_clear(1)
    \/ handle_websocket_closed(1)
    \/ \E term_program \in TermPrograms : \E extensions \in ExtensionLists :
          probes < MaxProbes /\ is_vscode_integration_available_call(term_program, extensions)
    \/ \E outcome \in HealthOutcomes : is_vscode_integration_available_return(outcome)

SpecProbe ==
    /\ Init
    /\ [][NextProbe]_vars
    /\ WF_vars(\E outcome \in HealthOutcomes : is_vscode_integration_available_return(outcome))

(***************************************************************************)
(* Teardown: the connection with its write pump and the publishers, under  *)
(* a runtime that schedules every task that can run: the read pump of a    *)
(* closed socket returns and runs its teardown, and the write pump takes   *)
(* the message that is queued or the end of its channel.                   *)
(***************************************************************************)
SpecTeardown ==
    /\ Init
    /\ [][NextPump]_vars
    /\ WF_vars(handle_websocket_clear(1))
    /\ WF_vars(handle_websocket_closed(1))
    /\ WF_vars(write_pump_forward(1))
    /\ WF_vars(write_pump_exit(1))

(***************************************************************************)
(* Claims about the connection slot and the channel.                       *)
(***************************************************************************)
ConnectionEstablished == Notification("connection_established", "connected")

\* C1: once connection B was installed over a still installed connection A,
\* every publish made while B has not disconnected is enqueued to B's channel
\* and to no other (so never again to A's).
C1_SingleSlotReplace ==
    (/\ published.n > 0
     /\ published.latest # 0
     /\ replaced[published.latest] # 0
     /\ published.latest_reading)
    => published.to = Some(published.latest)

\* C2: the response to a request read by the read pump of connection c is
\* enqueued to the channel of c and to no other connection's.
C2_ResponseOnSameChannel ==
    \A c \in Conns : \A i \in 1..Len(rx[c]) :
        rx[c][i].src = "response" => rx[c][i].by = c

\* C3: while the connection installed last has not disconnected (its read pump
\* has not returned), the slot holds that connection's sender; no teardown of
\* an older connection removes it.
C3_SlotHoldsLatest ==
    (latest # 0 /\ Reading(latest)) => WS_SENDER = Some(latest)

\* C4: a publish made with no sender installed returns an outcome the caller
\* can tell from "delivered to transport".
C4_NoConnectionPublish ==
    (published.n > 0 /\ published.to = None) => published.result # send_to_ide_result(Some(1))

\* C7: the first message a connection's channel accepts is its
\* connection_established notification.
C7_EstablishedFirst ==
    \A c \in Conns : IsSome(first[c]) => Unwrap(first[c]) = ConnectionEstablished

\* C8: the write pump sends the messages of a channel in the order the channel
\* accepted them, none twice: the sequence numbers given at acceptance rise
\* strictly along what was sent followed by what is still queued, and while the
\* socket is open that sequence is exactly everything accepted so far.
C8_FifoOutboundOrder ==
    \A c \in Conns :
        LET w == wire[c] \o rx[c]
        IN /\ \A i \in 1..Len(w) : \A j \in 1..Len(w) : i < j => w[i].seq < w[j].seq
           /\ \A i \in 1..Len(w) : w[i].seq \in 1..accepted[c]
           /\ ws_open[c] => \A i \in 1..Len(w) : w[i].seq = i
           /\ ws_open[c] => Len(w) = accepted[c]

\* C8 witness: the channel has accepted the connection_established
\* notification, two published notifications and a response; the write pump has
\* sent some of them while at least two more were queued behind
C8_Witness ==
    LET w == wire[1] \o rx[1]
    IN /\ Len(wire[1]) >= 2
       /\ Len(rx[1]) >= 2
       /\ \E i \in 1..Len(w) : w[i].src = "response"
       /\ \E i \in 1..Len(w) : \E j \in 1..Len(w) :
             /\ i < j
             /\ w[i].src = "publish" /\ w[j].src = "publish"
             /\ w[i].msg.status = 1 /\ w[j].msg.status = 2

(***************************************************************************)
(* Claims about the dispatcher.                                            *)
(***************************************************************************)
\* connection c has stored the context of the update request it is handling
\* and has not yet answered it
StoredUpdate(c) ==
    /\ pc[c] \in {"render", "rendering", "respond"}
    /\ IsSome(req[c])
    /\ Unwrap(req[c]).method = "update_editor_state"
    /\ IsSome(Unwrap(req[c]).params)

\* the params value of the request connection c is handling
ParamsOf(c) == Unwrap(Unwrap(req[c]).params)

\* member k of a JSON value, JAbsent when it has none
Member(v, k) == IF v.t = "obj" /\ k \in DOMAIN v.f THEN v.f[k] ELSE JAbsent

\* the stored string field is unset or is the string the request gives
StringFrom(field, v) == field = None \/ (v.t = "str" /\ field = Some(v.s))

\* the stored 32-bit coordinate is the integer the request gives, in 32 bits
CoordinateFrom(x, v) == v.t = "num" /\ v.lo = x

PositionFrom(pos, v) ==
    /\ CoordinateFrom(pos.line, Member(v, "line"))
    /\ CoordinateFrom(pos.character, Member(v, "character"))

\* the stored cursor state is unset or is a variant the request gives
CursorFrom(field, v) ==
    \/ field = None
    \/ /\ Unwrap(field).variant = "Position"
       /\ PositionFrom(Unwrap(field).position, Member(v, "position"))
    \/ /\ Unwrap(field).variant = "Range"
       /\ PositionFrom(Unwrap(field).start, Member(Member(v, "range"), "start"))
       /\ PositionFrom(Unwrap(field).end, Member(Member(v, "range"), "end"))

IsJsonString(v) == v.t = "str"

\* the strings of a JSON array, in its order
StringsOf(v) ==
    LET strings == SelectSeq(v.a, IsJsonString)
    IN [i \in 1..Len(strings) |-> strings[i].s]

\* the stored folders are unset or are the strings of the array the request gives
FoldersFrom(field, v) == field = None \/ (v.t = "arr" /\ field = Some(StringsOf(v)))

C9_UnknownMethod ==
    [][\A c \in Conns :
          (/\ pc[c] = "reading"
           /\ pc'[c] # "reading"
           /\ IsSome(req'[c])
           /\ Unwrap(req'[c]).method # "update_editor_state")
          => /\ pc'[c] = "respond"
             /\ IsSome(response'[c])
             /\ Unwrap(response'[c]).kind = "error"
             /\ Unwrap(response'[c]).code = -32601
             /\ Unwrap(response'[c]).id =
                   (IF IsSome(Unwrap(req'[c]).id) THEN Unwrap(Unwrap(req'[c]).id) ELSE JNull)
             /\ CURRENT_EDITOR' = CURRENT_EDITOR
             /\ WS_SENDER' = WS_SENDER]_vars

\* C9 witness: the request {method: "frobnicate", id: 7} has been dispatched
\* after an update stored a context, and the error response carries id 7
C9_Witness ==
    /\ pc[1] = "respond"
    /\ Unwrap(req[1]) = JsonRpcRequest("frobnicate", None, Some(N(7)))
    /\ Unwrap(response[1]).kind = "error"
    /\ Unwrap(response[1]).id = N(7)
    /\ CURRENT_EDITOR # EditorInfoDefault

CompleteCoordinate(v) == v.t = "num"
CompletePosition(v) ==
    CompleteCoordinate(Member(v, "line")) /\ CompleteCoordinate(Member(v, "character"))
CompleteRange(v) ==
    CompletePosition(Member(v, "start")) /\ CompletePosition(Member(v, "end"))

\* a cursor_state value that is present and is not an object, or gives a
\* position that is incomplete or wrongly typed, or gives no position and no
\* complete range.  (With both keys present the dispatcher reads the position
\* alone, so a complete position beside a broken range is not counted here.)
MalformedCursor(v) ==
    /\ v.t # "absent"
    /\ \/ v.t # "obj"
       \/ Member(v, "position").t # "absent" /\ ~CompletePosition(Member(v, "position"))
       \/ Member(v, "position").t = "absent" /\ ~CompleteRange(Member(v, "range"))

\* the stored string field holds the string the request gives, when it gives one
StringApplied(field, v) == v.t = "str" => field = Some(v.s)

SnapshotOf(u, state) ==
    /\ u.relative_file_path = Some(state.document.relative_file_path)
    /\ u.text = state.document.text
    /\ u.cursor_state = state.cursor_state
    /\ u.workspace_folders = state.workspace_folders

\* C6: what get_current_editor_state returns comes whole from one stored
\* context: its path, text, cursor state and folders are those of a single
\* update, and it returns None only for a stored context without a path.
C6_AtomicSnapshot ==
    /\ IsSome(get_result) => \E u \in stored : SnapshotOf(u, Unwrap(get_result))
    /\ IsSome(get_document) =>
          \E u \in stored : /\ u.relative_file_path = Some(Unwrap(get_document).relative_file_path)
                            /\ u.text = Unwrap(get_document).text
                            /\ get_pc = "document" => u = CURRENT_EDITOR

\* C6 witness: the reader has copied the document of update N and holds the
\* mutex, while the read pump waits to store update N+1, which differs from
\* update N in every field the reader copies
C6_Witness ==
    /\ get_pc = "document"
    /\ pc[1] = "store"
    /\ Unwrap(get_document).relative_file_path = Unwrap(CURRENT_EDITOR.relative_file_path)
    /\ IsSome(Unwrap(info[1]).relative_file_path)
    /\ Unwrap(info[1]).relative_file_path # CURRENT_EDITOR.relative_file_path
    /\ Unwrap(info[1]).text # CURRENT_EDITOR.text
    /\ Unwrap(info[1]).cursor_state # CURRENT_EDITOR.cursor_state
    /\ Unwrap(info[1]).workspace_folders # CURRENT_EDITOR.workspace_folders

(***************************************************************************)
(* Claims about the frames the read pump takes.                            *)
(***************************************************************************)
\* the document of a text frame is a JSON object
JsonObjectFrame(frame) == frame.t = "text" /\ frame.doc.t = "obj"

\* the frame is a JSON object that carries an id and is no request envelope:
\* its method is missing or is not a string
MalformedEnvelopeWithId(frame) ==
    /\ JsonObjectFrame(frame)
    /\ Member(frame.doc, "id").t \notin {"absent", "null"}
    /\ Member(frame.doc, "method").t # "str"

\* C11: a frame that is valid JSON, carries an id and is not a well-formed
\* request envelope (its method is missing) is answered: taking it leaves the
\* read pump with an error response addressed to that id.
C11_MalformedEnvelopeAnswered ==
    [][\A c \in Conns : \A frame \in DispatchFrames :
          (MalformedEnvelopeWithId(frame) /\ handle_websocket_frame(c, frame))
          => /\ pc'[c] = "respond"
             /\ IsSome(response'[c])
             /\ Unwrap(response'[c]).kind = "error"
             /\ Unwrap(response'[c]).id = Member(frame.doc, "id")]_vars

(***************************************************************************)
(* Claims about the availability probe.                                    *)
(***************************************************************************)
\* C12: is_vscode_integration_available answers false whenever the slot holds
\* no connection at the moment it returns (it answers true only with a
\* connection installed).
C12_ProbeAgreesWithSlot ==
    (IsSome(probe_result) /\ probe_slot = None) => Unwrap(probe_result) = FALSE

\* C13: a started probe returns a boolean whatever the health check yields, and
\* the boolean is false when the timeout elapsed or the request failed.
C13_ProbeTerminates ==
    /\ [](IsSome(probe_result) =>
            /\ probe_pc = "idle"
            /\ probe_outcome \in HealthOutcomes
            /\ Unwrap(probe_result) \in BOOLEAN
            /\ probe_outcome.k \in {"elapsed", "error"} => Unwrap(probe_result) = FALSE)
    /\ (probe_pc = "awaiting") ~> (probe_pc = "idle" /\ IsSome(probe_result))

\* C13 witness: with TERM_PROGRAM = vscode and the extension listed, the health
\* check did not answer before the timeout and the probe returned false
C13_Witness ==
    /\ probe_pc = "idle"
    /\ probe_env.vscode_detected
    /\ probe_env.extension_detected
    /\ probe_outcome = Elapsed
    /\ probe_result = Some(FALSE)

(***************************************************************************)
(* Claims about the stored cursor state.                                   *)
(***************************************************************************)
\* the cursor state is unset, or a Position that holds a position and nothing
\* else, or a Range that holds a start and an end and nothing else
ExclusiveCursor(cursor) ==
    \/ cursor = None
    \/ /\ Unwrap(cursor).variant = "Position"
       /\ DOMAIN Unwrap(cursor) = {"variant", "position"}
    \/ /\ Unwrap(cursor).variant = "Range"
       /\ DOMAIN Unwrap(cursor) = {"variant", "start", "end"}

\* C14: every context the store has held, holds, or is about to be given has
\* a cursor state that is exactly one of unset, Position and Range, also after
\* requests whose cursor_state carries both a position and a range.
C14_CursorVariantExclusive ==
    /\ \A e \in stored \cup {CURRENT_EDITOR} : ExclusiveCursor(e.cursor_state)
    /\ \A c \in Conns : IsSome(info[c]) => ExclusiveCursor(Unwrap(info[c]).cursor_state)

\* C14 witness: after an update that stored a Range, a request whose
\* cursor_state carries a complete position and a complete range has been
\* stored, and the store holds the Position alone
C14_Witness ==
    /\ StoredUpdate(1)
    /\ Member(ParamsOf(1), "cursor_state") = CursorObj(PosValid, RangeValid)
    /\ IsSome(prev_editor.cursor_state)
    /\ Unwrap(prev_editor.cursor_state).variant = "Range"
    /\ CURRENT_EDITOR.cursor_state = Some(CursorPosition(Position(3, 4)))

(***************************************************************************)
(* Claims about teardown.                                                  *)
(***************************************************************************)
\* the read pump of connection c has returned because the peer closed, and the
\* task has cleared the slot
TornDown(c) == pc[c] \in {"closed", "done"} /\ ~ws_open[c]

\* C15: once the read pump of a connection has returned on the peer's close,
\* the slot does not hold that connection's sender, and the connection's write
\* pump eventually terminates.
C15_TeardownOnDisconnect ==
    /\ [](\A c \in Conns : TornDown(c) => WS_SENDER # Some(c))
    /\ \A c \in Conns : TornDown(c) ~> (write_pump[c] = "done")

\* C15 witness: the peer of connection 1 closed while the slot held its sender
\* and messages were still queued; the slot is cleared, the write pump has
\* dropped what was queued and has ended
C15_Witness ==
    /\ TornDown(1)
    /\ replaced[1] = 0
    /\ latest = 1
    /\ WS_SENDER = None
    /\ accepted[1] >= 2
    /\ Len(wire[1]) < accepted[1]
    /\ rx[1] = <<>>
    /\ write_pump[1] = "done"

(***************************************************************************)
(* Claims about update_editor_state requests.                              *)
(***************************************************************************)
\* the request is an update_editor_state that names none of the fields of the
\* editor context: it has no params, or params without any of the five keys
NamesNoField(r) ==
    /\ r.method = "update_editor_state"
    /\ \/ r.params = None
       \/ \A k \in {"relative_file_path", "language", "text", "cursor_state",
                    "workspace_folders"} : Member(Unwrap(r.params), k).t = "absent"

\* C16: when the read pump is about to answer an update_editor_state request
\* that has no params, or params with none of the known fields, the store
\* holds the context with every field unset and the answer is {status: "ok"}.
C16_EmptyUpdateReplaces ==
    \A c \in Conns :
        (pc[c] = "respond" /\ IsSome(req[c]) /\ NamesNoField(Unwrap(req[c])))
        => /\ CURRENT_EDITOR = EditorInfoDefault
           /\ response[c] = Some(OkResponse(Unwrap(req[c]).id))

\* the frame is no request: a read error, a frame that is not text, a text
\* that is not JSON, or JSON that is not an object with a string for method
BadFrame(frame) ==
    \/ frame.t # "text"
    \/ frame.doc.t # "obj"
    \/ Member(frame.doc, "method").t # "str"

\* C17: taking a frame that is not text or does not decode as a request
\* enqueues nothing, prepares no response, leaves the stored context and the
\* slot as they were, and leaves the read pump at its read with the socket
\* open, where it takes the next frame.
C17_BadFrameSkipped ==
    [][\A c \in Conns : \A frame \in DispatchFrames :
          (BadFrame(frame) /\ handle_websocket_frame(c, frame))
          => /\ UNCHANGED <<rx, accepted, response, req, info>>
             /\ UNCHANGED <<CURRENT_EDITOR, stored, WS_SENDER>>
             /\ pc'[c] = "reading"
             /\ ws_open'[c]
             /\ frames'[c] = frames[c] + 1]_vars

\* C17 witness: the first frame the connection took was skipped (nothing but
\* connection_established was ever enqueued), and the second, a request, has
\* been processed up to its response
C17_Witness ==
    /\ frames[1] = 2
    /\ accepted[1] = 1
    /\ pc[1] = "respond"
    /\ IsSome(response[1])
    /\ CURRENT_EDITOR # EditorInfoDefault

(***************************************************************************)
(* Claims about coordinates and locks.                                     *)
(***************************************************************************)
\* the stored coordinate x is not negative and is the integer the JSON number
\* v gives: v is x itself, with nothing above the low 32 bits
CarriedCoordinate(x, v) == v.t = "num" /\ v.hi = 0 /\ v.lo = x /\ x >= 0

CarriedPosition(pos, v) ==
    /\ CarriedCoordinate(pos.line, Member(v, "line"))
    /\ CarriedCoordinate(pos.character, Member(v, "character"))

\* C18: every line and character an update_editor_state request has stored is
\* a non-negative integer equal to the integer the request sent.
C18_CoordinatesCarried ==
    \A c \in Conns :
        (StoredUpdate(c) /\ IsSome(CURRENT_EDITOR.cursor_state))
        => LET cursor == Unwrap(CURRENT_EDITOR.cursor_state)
               sent == Member(ParamsOf(c), "cursor_state")
           IN IF cursor.variant = "Position"
              THEN CarriedPosition(cursor.position, Member(sent, "position"))
              ELSE /\ CarriedPosition(cursor.start, Member(Member(sent, "range"), "start"))
                   /\ CarriedPosition(cursor.end, Member(Member(sent, "range"), "end"))

\* C19: no task writes to the terminal while it holds the mutex of
\* CURRENT_EDITOR: a connection that is rendering the status line does not
\* hold it.
C19_NoLockAcrossIO ==
    \A c \in Conns : pc[c] = "rendering" => editor_mutex # ConnTask(c)

\* C20: the channel of a connection whose read pump has not returned holds no
\* connection_closed notification sent by the teardown of another connection.
C20_ClosedNotMisdelivered ==
    \A c \in Conns :
        Reading(c) =>
            \A i \in 1..Len(rx[c]) :
                rx[c][i].msg = Notification("connection_closed", "disconnected")
                => rx[c][i].by = c

====
